---- MODULE Spec2Model ----
(***************************************************************************)
(* State machine of the CoachNova onboarding wizard (src/pages/index.tsx): *)
(* the OnboardingForm (profile fields, submit, geo lookups), the Home      *)
(* orchestrator (current step, progress map), the single StepPanel         *)
(* instance (sub-step cursor, answers of all six steps, preview sliders,   *)
(* crossfade timers) and the pure preview synthesis functions.             *)
(*                                                                         *)
(* One action is one event handler (or timer callback) run to completion   *)
(* together with the React effects it triggers: the reset effect on a     *)
(* change of step.id and the progress effect after every state change.     *)
(*                                                                         *)
(* Texts are sequences of characters so that String.trim() is computed.    *)
(* Percentages and progress fractions are exact rationals on a fixed       *)
(* integer scale; for slider weights 1..10 exact arithmetic and IEEE       *)
(* doubles give the same gradient stops.                                   *)
(***************************************************************************)
EXTENDS Integers, Sequences, FiniteSets, TLC

(***************************************************************************)
(* Bounds of the model                                                     *)
(***************************************************************************)
\* number of rows of the guardrails permission matrix that are modelled
NumRows == 2
\* answer-editing events per visit of a step
MaxEdits == 5
\* backward step changes (Stepper jumps, goPrev out of a step) per session
MaxJumps == 1
\* commits whose crossfade timers may be pending at the same time, in the
\* wizard sessions
MaxPending == 1
\* the same in the sessions that only drag and release the tone sliders
MaxOverlap == 2
\* backward moves and Stepper jumps per session of answers and navigation
MaxHops == 2
\* largest weight handed to computePreviewGradient as a pure function
MaxWeight == 11
\* manual 'Detect' lookups that may be pending at the same time
MaxDetects == 1

(***************************************************************************)
(* Values                                                                  *)
(***************************************************************************)
NULL == "null"
NoNotice == "none"

\* values typed into a text input: empty, whitespace only, non-blank
TextInputs == { <<>>, <<" ">>, <<"a">> }

Max2(a, b) == IF a >= b THEN a ELSE b
Min2(a, b) == IF a <= b THEN a ELSE b
B(p) == IF p THEN 1 ELSE 0

RECURSIVE TrimLeft(_)
TrimLeft(s) == IF s # <<>> /\ Head(s) = " " THEN TrimLeft(Tail(s)) ELSE s

RECURSIVE TrimRight(_)
TrimRight(s) ==
  IF s # <<>> /\ s[Len(s)] = " " THEN TrimRight(SubSeq(s, 1, Len(s) - 1)) ELSE s

\* String.prototype.trim
Trim(s) == TrimRight(TrimLeft(s))

\* Array.prototype.includes / filter on a selection array
Includes(s, x) == \E i \in 1..Len(s) : s[i] = x
Without(s, x) == SelectSeq(s, LAMBDA y : y # x)

(***************************************************************************)
(* Home.steps and the option lists of StepPanel                            *)
(***************************************************************************)
steps == << "language", "identity", "method", "example", "guardrails", "preview" >>

StepIds == { steps[i] : i \in 1..Len(steps) }

Languages == { "English", "Dutch" }

\* the tone words offered on identity Q2 that the model exercises
toneOptions == { "Direct", "Warm", "Curious" }

\* questions with an option list and an 'Other' toggle plus text
SingleQs == { "q3", "q4", "mQ1", "mQ2", "mQ3", "exQ1", "exQ2", "gQ2" }
MultiQs == { "q2", "q5", "gQ1" }
OtherQs == SingleQs \cup MultiQs
TextQs == { "q1", "exQ3" }

\* one option of each list is exercised
OptionOf(q) ==
  CASE q = "q3" -> "Tell me more"
    [] q = "q4" -> "Calm down"
    [] q = "q5" -> "Founders"
    [] q = "mQ1" -> "Narrative"
    [] q = "mQ2" -> "they commit to action"
    [] q = "mQ3" -> "Riding a bike"
    [] q = "exQ1" -> "Client procrastinated"
    [] q = "exQ2" -> "Named the resistance"
    [] q = "gQ1" -> "Give direct advice"
    [] q = "gQ2" -> "AI introduces itself"

guardQ3RowsAll ==
  << "Check ins", "Homework", "Goal reminders", "Reflection prompts",
     "Celebrate progress", "Suggest resources", "Handle emotions", "Scheduling" >>

guardQ3Rows == { guardQ3RowsAll[i] : i \in 1..NumRows }

Levels == { "never", "review", "independent" }

\* step and sub-index at which a question is rendered
QStep(q) ==
  CASE q \in { "q1", "q2", "q3", "q4", "q5" } -> "identity"
    [] q \in { "mQ1", "mQ2", "mQ3" } -> "method"
    [] q \in { "exQ1", "exQ2", "exQ3" } -> "example"
    [] q \in { "gQ1", "gQ2" } -> "guardrails"

QSub(q) ==
  CASE q \in { "q1", "mQ1", "exQ1", "gQ1" } -> 0
    [] q \in { "q2", "mQ2", "exQ2", "gQ2" } -> 1
    [] q \in { "q3", "mQ3", "exQ3" } -> 2
    [] q = "q4" -> 3
    [] q = "q5" -> 4

\* progress fractions are integers on this scale (ProgressScale stands for 1)
ProgressScale == 30 * NumRows
Frac(n, d) == (n * ProgressScale) \div d

(***************************************************************************)
(* State                                                                   *)
(***************************************************************************)
VARIABLES
  showStepper, currentStep, stepProgress,           \* Home
  subIndex, showIntro,                              \* StepPanel cursor
  onboardingLang, twinLang,                         \* language answers
  freeText, selection, selections, otherOpen, otherText, gQ3Map,
  previewRating, showAdvancedPreviewControls,
  directness, warmth, challenge,                    \* live sliders
  commDirectness, commWarmth, commChallenge,        \* committed sliders
  previewMessage, feedbackThumb, selectedFeedbackChoice,
  demoContent, demoVisible, bgGradient, nextBgGradient, bgFading,
  textTimers, bgTimers,                             \* pending setTimeout callbacks
  notice,                                           \* alert() raised by the last handler
  edits, jumps,                                     \* bounded event counters
  pure,                                             \* call record of the pure-function specifications
  form,                                             \* OnboardingForm state
  lookup                                            \* the geo lookups of OnboardingForm

homeVars == << showStepper, currentStep, stepProgress >>
cursorVars == << subIndex, showIntro >>
answerVars ==
  << onboardingLang, twinLang, freeText, selection, selections, otherOpen,
     otherText, gQ3Map >>
liveVars ==
  << previewRating, showAdvancedPreviewControls, directness, warmth, challenge >>
commVars == << commDirectness, commWarmth, commChallenge >>
feedbackVars == << feedbackThumb, selectedFeedbackChoice >>
crossfadeVars ==
  << previewMessage, demoContent, demoVisible, bgGradient, nextBgGradient, bgFading >>
timerVars == << textTimers, bgTimers >>
profileVars == << form, lookup >>

vars ==
  << homeVars, cursorVars, answerVars, liveVars, commVars, feedbackVars,
     crossfadeVars, timerVars, notice, edits, jumps, pure, profileVars >>

stepId == steps[currentStep + 1]

(***************************************************************************)
(* Preview synthesis: text templates (commitPreviewFromSliders)            *)
(***************************************************************************)
\* A message is a sequence of string pieces whose last two pieces are its
\* last two characters.  The templates close with U+201D (right double
\* quotation mark); QUOT is the ASCII quotation mark U+0022.
RDQUO == "U+201D"
QUOT == "\""

MsgDefault ==
  << "(U+201C)Let's get to the real issue. What's the cost of not changing this", "?", RDQUO >>
MsgWarm ==
  << "(U+201C)I'm glad you're here. Tell me more about what feels heavy for you right now", ".", RDQUO >>
MsgDirect ==
  << "(U+201C)What's holding you back? Be specific", ".", RDQUO >>

ReflectionDefault ==
  "Real change happens when we stop avoiding discomfort. Imagine climbing a mountain. What tough step are you avoiding?"
ReflectionWarm ==
  "Real change happens when we feel safe to be vulnerable. Think of planting seeds. What seed do you want to nurture this week?"
ReflectionDirect ==
  "Real change happens when excuses stop. Picture riding a bike. What's the first action you'll take today?"

ChallengeClause == " - and what will you do about it"

\* msg.replace(/\?"$/, ' - and what will you do about it?"'): the pattern is
\* a question mark followed by U+0022 at the end of the string
ReplaceChallengeSuffix(msg) ==
  LET n == Len(msg) IN
  IF n >= 2 /\ msg[n - 1] = "?" /\ msg[n] = QUOT
    THEN SubSeq(msg, 1, n - 2) \o << ChallengeClause, "?", QUOT >>
    ELSE msg

\* SelectTemplate with the tie-break 'wv > d' of the first branch left out
SelectTemplate_NoTieBreak(d, wv) ==
  IF wv >= 7 THEN [msg |-> MsgWarm, reflection |-> ReflectionWarm]
  ELSE IF d >= 7 /\ d >= wv THEN [msg |-> MsgDirect, reflection |-> ReflectionDirect]
  ELSE [msg |-> MsgDefault, reflection |-> ReflectionDefault]

\* the message/reflection template selected by the if / else-if chain
SelectTemplate(d, wv) ==
  IF wv >= 7 /\ wv > d THEN [msg |-> MsgWarm, reflection |-> ReflectionWarm]
  ELSE IF d >= 7 /\ d >= wv THEN [msg |-> MsgDirect, reflection |-> ReflectionDirect]
  ELSE [msg |-> MsgDefault, reflection |-> ReflectionDefault]

\* the value handed to setPreviewMessage
PreviewMessageFor(d, wv, ch) ==
  LET t == SelectTemplate(d, wv) IN
  [msg |-> IF ch >= 8 THEN ReplaceChallengeSuffix(t.msg) ELSE t.msg,
   reflection |-> t.reflection]

DemoInitial ==
  "Hi, I(U+2019)m here to help you reflect. What if we explore what(U+2019)s holding you back right now?"
DemoWarm == "I'm glad you're here. Tell me more about what feels heavy for you right now."
DemoDirect == "What's holding you back? Be specific."
DemoChallenge == "Tell me about the feeling behind that choice."
DemoDefault ==
  "Hi, I'm here to help you reflect. What if we explore what's holding you back right now?"

\* gen with the challenge branch at the threshold of the message suffix
gen_ChallengeAt8(d, wv, ch) ==
  IF wv >= 7 /\ wv > d THEN DemoWarm
  ELSE IF d >= 7 /\ d >= wv THEN DemoDirect
  ELSE IF ch >= 8 THEN DemoChallenge
  ELSE DemoDefault

\* the closure gen() of a commit
gen(d, wv, ch) ==
  IF wv >= 7 /\ wv > d THEN DemoWarm
  ELSE IF d >= 7 /\ d >= wv THEN DemoDirect
  ELSE IF ch >= 7 THEN DemoChallenge
  ELSE DemoDefault

(***************************************************************************)
(* Preview synthesis: gradient (computePreviewGradient)                    *)
(***************************************************************************)
minSeg == 8
overlap == 2

\* every part counted as below minSeg
Clamped_Always(x, total) == TRUE

\* parts[i] < minSeg, with parts[i] = (x / total) * 100 and
\* total = Math.max(0.0001, d + w + c)
Clamped(x, total) == IF total = 0 THEN TRUE ELSE 100 * x < minSeg * total

\* the indices the first pass clamps to minSeg
clampedParts(d, w, c) == { i \in 1..3 : Clamped(<< d, w, c >>[i], d + w + c) }

\* flexibleTotal after the first pass, in units of 100 / total: the sum of the
\* weights of the parts that were not clamped
flexibleTotal(d, w, c) ==
  LET x == << d, w, c >>
      Sum[i \in 0..3] == IF i = 0 THEN 0
                         ELSE Sum[i - 1] + (IF i \in clampedParts(d, w, c) THEN 0 ELSE x[i])
  IN Sum[3]

\* the branch "if (flexibleTotal <= 0)": the even three-way split
evenSplit(d, w, c) == flexibleTotal(d, w, c) <= 0

\* the array adjusted[] after both passes; every width is a fraction <<num, den>>
adjustedWidths(d, w, c) ==
  LET x == << d, w, c >>
      clampedSet == clampedParts(d, w, c)
      remaining == 100 - minSeg * Cardinality(clampedSet)
      flexSum == flexibleTotal(d, w, c)
  IN IF evenSplit(d, w, c)
       THEN [i \in 1..3 |-> << 100, 3 >>]
       ELSE [i \in 1..3 |->
               IF i \in clampedSet THEN << minSeg, 1 >>
               ELSE << x[i] * remaining, flexSum >>]

\* Math.round of a non-negative fraction
Round(num, den) == (2 * num + den) \div (2 * den)

stop1(a) == Round(a[1][1], a[1][2])
stop2(a) == Round(a[1][1] * a[2][2] + a[2][1] * a[1][2], a[1][2] * a[2][2])

\* the four computed stop positions of the linear-gradient string (the colour
\* anchors and the 0% / 100% ends are fixed)
computePreviewGradient(d, w, c) ==
  LET a == adjustedWidths(d, w, c)
      s1 == stop1(a)
      s2 == stop2(a)
  IN << Max2(0, s1 - overlap), Min2(100, s1 + overlap),
        Max2(0, s2 - overlap), Min2(100, s2 + overlap) >>

NoGradient == << >>

(***************************************************************************)
(* Initial state: Home and StepPanel hooks at their useState defaults      *)
(***************************************************************************)
\* previewMessage before the first commit (null)
NoMessage == [msg |-> << >>, reflection |-> NULL]

NoPure == [fn |-> "none"]

EmptyAnswers ==
  /\ onboardingLang = NULL
  /\ twinLang = NULL
  /\ freeText = [q \in TextQs |-> << >>]
  /\ selection = [q \in SingleQs |-> NULL]
  /\ selections = [q \in MultiQs |-> << >>]
  /\ otherOpen = [q \in OtherQs |-> FALSE]
  /\ otherText = [q \in OtherQs |-> << >>]
  /\ gQ3Map = [r \in guardQ3Rows |-> NULL]

\* the useState defaults of Home and StepPanel
InitProgram ==
  /\ showStepper = FALSE
  /\ currentStep = 0
  /\ stepProgress = [id \in {} |-> 0]
  /\ subIndex = 0
  /\ showIntro = TRUE
  /\ EmptyAnswers
  /\ previewRating = 5
  /\ showAdvancedPreviewControls = FALSE
  /\ directness = 5
  /\ warmth = 5
  /\ challenge = 5
  /\ commDirectness = 5
  /\ commWarmth = 5
  /\ commChallenge = 5
  /\ previewMessage = NoMessage
  /\ feedbackThumb = NULL
  /\ selectedFeedbackChoice = NULL
  /\ demoContent = DemoInitial
  /\ demoVisible = TRUE
  /\ bgGradient = computePreviewGradient(5, 5, 5)
  /\ nextBgGradient = NoGradient
  /\ bgFading = FALSE
  /\ textTimers = << >>
  /\ bgTimers = << >>
  /\ notice = NoNotice
  /\ edits = 0
  /\ jumps = 0

\* the useState defaults of OnboardingForm
FormDefaults ==
  [ firstName |-> "", lastName |-> "", email |-> << >>, country |-> "",
    loadingGeo |-> FALSE, showModal |-> FALSE ]

\* the mount effect of OnboardingForm returned early (offline, or not on the
\* dev-server port): no automatic lookup runs
LookupSkipped ==
  [ mounted |-> TRUE, pc |-> "skipped", attempt |-> 0, requests |-> 0, delay |-> 0,
    detecting |-> 0 ]

Init == InitProgram /\ form = FormDefaults /\ lookup = LookupSkipped /\ pure = NoPure

(***************************************************************************)
(* Effects of StepPanel                                                    *)
(***************************************************************************)
\* the 'other' toggles the reset effect sets back to false
ResetOtherOpen(q) == q # "q3"

\* a reset effect that puts the closeness rating at 0
ResetEffect_ZeroRating ==
  /\ subIndex' = 0
  /\ showIntro' = TRUE
  /\ onboardingLang' = NULL
  /\ twinLang' = NULL
  /\ freeText' = [q \in TextQs |-> << >>]
  /\ selection' = [q \in SingleQs |-> NULL]
  /\ selections' = [q \in MultiQs |-> << >>]
  /\ otherOpen' = [q \in OtherQs |-> IF ResetOtherOpen(q) THEN FALSE ELSE otherOpen[q]]
  /\ otherText' = [q \in OtherQs |-> << >>]
  /\ gQ3Map' = [r \in guardQ3Rows |-> NULL]
  /\ previewRating' = 0
  /\ showAdvancedPreviewControls' = FALSE
  /\ directness' = 5
  /\ warmth' = 5
  /\ challenge' = 5

\* useEffect(..., [step.id]) at 542-596 and 742-744, run when step.id changed
ResetEffect ==
  /\ subIndex' = 0
  /\ showIntro' = TRUE
  /\ onboardingLang' = NULL
  /\ twinLang' = NULL
  /\ freeText' = [q \in TextQs |-> << >>]
  /\ selection' = [q \in SingleQs |-> NULL]
  /\ selections' = [q \in MultiQs |-> << >>]
  /\ otherOpen' = [q \in OtherQs |-> IF ResetOtherOpen(q) THEN FALSE ELSE otherOpen[q]]
  /\ otherText' = [q \in OtherQs |-> << >>]
  /\ gQ3Map' = [r \in guardQ3Rows |-> NULL]
  /\ previewRating' = 5
  /\ showAdvancedPreviewControls' = FALSE
  /\ directness' = 5
  /\ warmth' = 5
  /\ challenge' = 5

\* "answered" of a question with an option list and an 'Other' toggle
OtherAnswered(chosen, q) == chosen \/ (otherOpen[q] /\ Trim(otherText[q]) # << >>)

answeredRows == Cardinality({ r \in guardQ3Rows : gQ3Map[r] # NULL })

\* the value handed to onProgressChange by the progress effect (598-654)
ProgressCalc ==
  CASE stepId = "language" -> Frac(Max2(0, Min2(2, subIndex)), 2)
    [] stepId = "identity" ->
         Frac(B(Trim(freeText["q1"]) # << >>)
              + B(OtherAnswered(selections["q2"] # << >>, "q2"))
              + B(selection["q3"] # NULL \/ Trim(otherText["q3"]) # << >>)
              + B(OtherAnswered(selection["q4"] # NULL, "q4"))
              + B(OtherAnswered(selections["q5"] # << >>, "q5")), 5)
    [] stepId = "method" ->
         Frac(B(OtherAnswered(selection["mQ1"] # NULL, "mQ1"))
              + B(OtherAnswered(selection["mQ2"] # NULL, "mQ2"))
              + B(OtherAnswered(selection["mQ3"] # NULL, "mQ3")), 3)
    [] stepId = "example" ->
         Frac(B(OtherAnswered(selection["exQ1"] # NULL, "exQ1"))
              + B(OtherAnswered(selection["exQ2"] # NULL, "exQ2"))
              + B(Trim(freeText["exQ3"]) # << >>), 3)
    [] stepId = "guardrails" ->
         Frac(NumRows * (B(OtherAnswered(selections["gQ1"] # << >>, "gQ1"))
                         + B(OtherAnswered(selection["gQ2"] # NULL, "gQ2")))
              + answeredRows, 3 * NumRows)
    [] stepId = "preview" -> Frac(B(previewRating > 0), 1)

\* a handler that stores a fresh map holding the reported entry only
handleStepProgress_Fresh(prev, id, p) == (id :> Max2(0, Min2(ProgressScale, p)))

\* a handler that stores the reported value as a percentage, unclamped
handleStepProgress_Percent(prev, id, p) == (id :> 100 * p) @@ prev

\* Home.handleStepProgress: ({ ...prev, [id]: Math.max(0, Math.min(1, p)) })
handleStepProgress(prev, id, p) == (id :> Max2(0, Min2(ProgressScale, p))) @@ prev

\* the progress effect followed by Home.reportProgress, on the state the
\* handler leaves behind
ProgressEffect ==
  stepProgress' = handleStepProgress(stepProgress, stepId', ProgressCalc')

(***************************************************************************)
(* Forward navigation: what a handler decides on the current state         *)
(***************************************************************************)
Alert(m) == [t |-> "alert", m |-> m]
SetSub(n) == [t |-> "setSubIndex", to |-> n]
Return == [t |-> "return"]
OnNext == [t |-> "onNext"]
OnPrev == [t |-> "onPrev"]

\* the validation conditions, as written in goNext and again in the inline handlers
q2Missing == selections["q2"] = << >> /\ ~(otherOpen["q2"] /\ Trim(otherText["q2"]) # << >>)
q3Missing == selection["q3"] = NULL /\ Trim(otherText["q3"]) = << >>
SingleMissing(q) == selection[q] = NULL /\ ~(otherOpen[q] /\ Trim(otherText[q]) # << >>)
gQ1Missing == selections["gQ1"] = << >> /\ ~(otherOpen["gQ1"] /\ Trim(otherText["gQ1"]) # << >>)
gQ3RowMissing == \E r \in guardQ3Rows : gQ3Map[r] = NULL

\* StepPanel.goNext (661-731); it has no branch for the method step
goNext ==
  CASE stepId = "language" ->
         IF subIndex < 2
           THEN IF subIndex = 0 /\ onboardingLang = NULL
                  THEN Alert("Please select a language to continue")
                ELSE IF subIndex = 1 /\ twinLang = NULL
                  THEN Alert("Please select a language for your AI Twin")
                ELSE SetSub(subIndex + 1)
           ELSE OnNext
    [] stepId = "identity" ->
         IF subIndex < 5
           THEN IF subIndex = 0 /\ Trim(freeText["q1"]) = << >>
                  THEN Alert("Please answer Q1 to continue")
                ELSE IF subIndex = 1 /\ q2Missing
                  THEN Alert("Please select at least one tone for Q2")
                ELSE IF subIndex = 2 /\ q3Missing
                  THEN Alert("Please select or enter a phrase for Q3")
                ELSE IF subIndex = 3 /\ SingleMissing("q4")
                  THEN Alert("Please select a phrase for Q4")
                ELSE SetSub(subIndex + 1)
           ELSE OnNext
    [] stepId = "example" ->
         IF subIndex < 3
           THEN IF subIndex = 0 /\ SingleMissing("exQ1")
                  THEN Alert("Please answer Q1 to continue")
                ELSE IF subIndex = 1 /\ SingleMissing("exQ2")
                  THEN Alert("Please answer Q2 to continue")
                ELSE IF subIndex = 2 /\ Trim(freeText["exQ3"]) = << >>
                  THEN Alert("Please write a short dialogue for Q3")
                ELSE SetSub(subIndex + 1)
           ELSE OnNext
    [] stepId = "guardrails" ->
         IF subIndex < 3
           THEN IF subIndex = 0 /\ gQ1Missing
                  THEN Alert("Please answer Q1 to continue")
                ELSE IF subIndex = 1 /\ SingleMissing("gQ2")
                  THEN Alert("Please answer Q2 to continue")
                ELSE IF subIndex = 2 /\ gQ3RowMissing
                  THEN Alert("Please set permissions for all items in Q3 (e.g. never / with my review / independently)")
                ELSE SetSub(subIndex + 1)
           ELSE OnNext
    [] stepId = "preview" ->
         IF subIndex < 2
           THEN IF subIndex = 0 /\ previewRating <= 0
                  THEN Alert("Please rate the preview to continue")
                ELSE SetSub(subIndex + 1)
           ELSE OnNext
    [] OTHER -> OnNext

\* a goPrev that never leaves the step
goPrev_StaysInStep == IF subIndex = 0 THEN Return ELSE SetSub(Max2(0, subIndex - 1))

\* StepPanel.goPrev (656-659)
goPrev == IF subIndex = 0 THEN OnPrev ELSE SetSub(Max2(0, subIndex - 1))

\* inline handler of the language Next/Review button (817-821)
languageNext ==
  IF subIndex = 0 /\ onboardingLang = NULL THEN Return
  ELSE IF subIndex = 1 /\ twinLang = NULL THEN Return
  ELSE SetSub(Min2(2, subIndex + 1))

\* an identity Next handler that also gates the typical-clients question
identityNext_ClientsGate ==
  IF subIndex < 5
    THEN IF subIndex = 0 /\ Trim(freeText["q1"]) = << >>
           THEN Alert("Please answer Q1 to continue")
         ELSE IF subIndex = 1 /\ q2Missing
           THEN Alert("Please select at least one tone for Q2")
         ELSE IF subIndex = 2 /\ q3Missing
           THEN Alert("Please select or enter a phrase for Q3")
         ELSE IF subIndex = 3 /\ SingleMissing("q4")
           THEN Alert("Please select a phrase for Q4")
         ELSE IF subIndex = 4 /\ selections["q5"] = << >>
                 /\ ~(otherOpen["q5"] /\ Trim(otherText["q5"]) # << >>)
           THEN Alert("Please answer Q5 to continue")
         ELSE SetSub(Min2(5, subIndex + 1))
    ELSE OnNext

\* inline handler of the identity Next/Review/Continue button (978-990)
identityNext ==
  IF subIndex < 5
    THEN IF subIndex = 0 /\ Trim(freeText["q1"]) = << >>
           THEN Alert("Please answer Q1 to continue")
         ELSE IF subIndex = 1 /\ q2Missing
           THEN Alert("Please select at least one tone for Q2")
         ELSE IF subIndex = 2 /\ q3Missing
           THEN Alert("Please select or enter a phrase for Q3")
         ELSE IF subIndex = 3 /\ SingleMissing("q4")
           THEN Alert("Please select a phrase for Q4")
         ELSE SetSub(Min2(5, subIndex + 1))
    ELSE OnNext

\* inline handler of the method Next/Review/Continue button (1107-1117)
methodNext ==
  IF subIndex < 3
    THEN IF subIndex = 0 /\ SingleMissing("mQ1")
           THEN Alert("Please select or enter an approach for Q1")
         ELSE IF subIndex = 1 /\ SingleMissing("mQ2")
           THEN Alert("Please select or enter a belief for Q2")
         ELSE IF subIndex = 2 /\ SingleMissing("mQ3")
           THEN Alert("Please select or enter a metaphor for Q3")
         ELSE SetSub(Min2(3, subIndex + 1))
    ELSE OnNext

\* an example Next handler that advances without looking at the answers
exampleNext_Ungated ==
  IF subIndex < 3 THEN SetSub(Min2(3, subIndex + 1)) ELSE OnNext

\* inline handler of the example Next/Review/Continue button (1224-1234)
exampleNext ==
  IF subIndex < 3
    THEN IF subIndex = 0 /\ SingleMissing("exQ1")
           THEN Alert("Please answer Q1 to continue")
         ELSE IF subIndex = 1 /\ SingleMissing("exQ2")
           THEN Alert("Please answer Q2 to continue")
         ELSE IF subIndex = 2 /\ Trim(freeText["exQ3"]) = << >>
           THEN Alert("Please write a short dialogue for Q3")
         ELSE SetSub(Min2(3, subIndex + 1))
    ELSE OnNext

\* a guardrails Next handler that is content with one permission row set
guardrailsNext_AnyRow ==
  IF subIndex < 3
    THEN IF subIndex = 0 /\ gQ1Missing
           THEN Alert("Please answer Q1 to continue")
         ELSE IF subIndex = 1 /\ SingleMissing("gQ2")
           THEN Alert("Please answer Q2 to continue")
         ELSE IF subIndex = 2 /\ answeredRows = 0
           THEN Alert("Please set permissions for all items in Q3 (e.g. never / with my review / independently)")
         ELSE SetSub(Min2(3, subIndex + 1))
    ELSE OnNext

\* inline handler of the guardrails Next/Review/Continue button (1515-1528)
guardrailsNext ==
  IF subIndex < 3
    THEN IF subIndex = 0 /\ gQ1Missing
           THEN Alert("Please answer Q1 to continue")
         ELSE IF subIndex = 1 /\ SingleMissing("gQ2")
           THEN Alert("Please answer Q2 to continue")
         ELSE IF subIndex = 2 /\ gQ3RowMissing
           THEN Alert("Please set permissions for all items in Q3 (e.g. never / with my review / independently)")
         ELSE SetSub(Min2(3, subIndex + 1))
    ELSE OnNext

\* inline handler of the preview Next button (1374-1382); its lastSub is 1
previewNext ==
  IF subIndex < 1
    THEN IF previewRating <= 0
           THEN Alert("Please rate the preview to continue")
         ELSE SetSub(Min2(1, subIndex + 1))
    ELSE OnNext

\* the inline handler of the Next button of the active step
inlineNext ==
  CASE stepId = "language" -> languageNext
    [] stepId = "identity" -> identityNext
    [] stepId = "method" -> methodNext
    [] stepId = "example" -> exampleNext
    [] stepId = "guardrails" -> guardrailsNext
    [] stepId = "preview" -> previewNext

(***************************************************************************)
(* What is on screen                                                       *)
(***************************************************************************)
\* the sub-index of the feedback screen carrying 'Revisit questions' / 'Proceed'
feedbackSub(id) ==
  CASE id = "language" -> 2
    [] id = "identity" -> 5
    [] id \in { "method", "example", "guardrails" } -> 3
    [] OTHER -> -1

PanelShown == showStepper /\ ~showIntro

\* a question's inputs are rendered at its step and sub-index
Rendered(q) == PanelShown /\ stepId = QStep(q) /\ subIndex = QSub(q)

\* the Previous / Next row: always on identity, method, example, guardrails;
\* sub-indices 0 and 1 on language; sub-index 0 on preview
NavRowRendered ==
  /\ PanelShown
  /\ stepId = "language" => subIndex \in { 0, 1 }
  /\ stepId = "preview" => subIndex = 0

FeedbackRendered == PanelShown /\ subIndex = feedbackSub(stepId)

SlidersRendered ==
  PanelShown /\ stepId = "preview" /\ subIndex = 0 /\ showAdvancedPreviewControls

(***************************************************************************)
(* Step changes and the application of a navigation decision               *)
(***************************************************************************)
previewVars == << commVars, feedbackVars, crossfadeVars, timerVars >>

\* a setCurrentStep(i) after which the reset effect runs even when the step
\* stays the same
StepChange_AlwaysReset(i) ==
  /\ currentStep' = i
  /\ ResetEffect
  /\ edits' = 0

\* setCurrentStep(i) followed by the effects on step.id
StepChange(i) ==
  /\ currentStep' = i
  /\ IF i # currentStep
       THEN ResetEffect /\ edits' = 0
       ELSE UNCHANGED << cursorVars, answerVars, liveVars, edits >>

Apply(o) ==
  /\ IF o.t = "alert"
       THEN /\ notice' = o.m
            /\ UNCHANGED << currentStep, cursorVars, answerVars, liveVars, edits >>
     ELSE IF o.t = "return"
       THEN /\ notice' = NoNotice
            /\ UNCHANGED << currentStep, cursorVars, answerVars, liveVars, edits >>
     ELSE IF o.t = "setSubIndex"
       THEN /\ notice' = NoNotice
            /\ subIndex' = o.to
            /\ UNCHANGED << currentStep, showIntro, answerVars, liveVars, edits >>
     ELSE IF o.t = "onNext"
       THEN /\ notice' = NoNotice
            /\ StepChange(Min2(Len(steps) - 1, currentStep + 1))
     ELSE /\ notice' = NoNotice
          /\ StepChange(Max2(0, currentStep - 1))
  /\ ProgressEffect
  /\ UNCHANGED << showStepper, previewVars, pure, profileVars >>

(***************************************************************************)
(* Home                                                                    *)
(***************************************************************************)
\* Home.handleStart: the OnboardingForm unmounts (its state is discarded and
\* the cleanup of its mount effect clears 'mounted'), the StepPanel mounts on
\* step 0 and reports its progress
handleStart ==
  /\ ~showStepper
  /\ showStepper' = TRUE
  /\ currentStep' = 0
  /\ notice' = NoNotice
  /\ form' = FormDefaults
  /\ lookup' = [lookup EXCEPT !.mounted = FALSE]
  /\ UNCHANGED << cursorVars, answerVars, liveVars, edits >>
  /\ ProgressEffect
  /\ UNCHANGED << previewVars, jumps, pure >>

\* a Stepper on which every item is clickable
completed_Always(i) == TRUE

\* Stepper: completed = (stepProgress[s.id] || 0) >= 1 || i < current
completed(i) ==
  \/ (IF steps[i + 1] \in DOMAIN stepProgress THEN stepProgress[steps[i + 1]] ELSE 0)
       >= ProgressScale
  \/ i < currentStep

\* click on a clickable Stepper item: onJump(i) = setCurrentStep(i), in a
\* session of at most limit backward moves and jumps
JumpWithin(i, limit) ==
  /\ showStepper
  /\ completed(i)
  /\ i # currentStep
  /\ jumps < limit
  /\ jumps' = jumps + 1
  /\ notice' = NoNotice
  /\ StepChange(i)
  /\ ProgressEffect
  /\ UNCHANGED << showStepper, previewVars, pure, profileVars >>

Jump(i) == JumpWithin(i, MaxJumps)

(***************************************************************************)
(* StepPanel: cursor buttons                                               *)
(***************************************************************************)
\* 'Start Step n' on the intro screen
StartStep ==
  /\ showStepper /\ showIntro
  /\ showIntro' = FALSE
  /\ notice' = NoNotice
  /\ UNCHANGED << currentStep, subIndex, answerVars, liveVars, edits >>
  /\ ProgressEffect
  /\ UNCHANGED << showStepper, previewVars, jumps, pure, profileVars >>

\* a 'Previous' that lowers the sub-index without the clamp at 0
PreviousButton_Unclamped ==
  /\ NavRowRendered
  /\ Apply(SetSub(subIndex - 1))
  /\ UNCHANGED jumps

\* 'Previous': setSubIndex(s => Math.max(0, s - 1))
PreviousButton ==
  /\ NavRowRendered
  /\ Apply(SetSub(Max2(0, subIndex - 1)))
  /\ UNCHANGED jumps

\* 'Next' / 'Review' / 'Continue' of the navigation row
NextButton ==
  /\ NavRowRendered
  /\ Apply(inlineNext)
  /\ UNCHANGED jumps

\* 'Proceed to Step n' on a feedback screen: onClick = goNext
ProceedButton ==
  /\ FeedbackRendered
  /\ Apply(goNext)
  /\ UNCHANGED jumps

\* 'Revisit questions': language only shows the intro again, the other steps
\* also set subIndex to 0
RevisitButton ==
  /\ FeedbackRendered
  /\ showIntro' = TRUE
  /\ subIndex' = IF stepId = "language" THEN subIndex ELSE 0
  /\ notice' = NoNotice
  /\ UNCHANGED << currentStep, answerVars, liveVars, edits >>
  /\ ProgressEffect
  /\ UNCHANGED << showStepper, previewVars, jumps, pure, profileVars >>

(***************************************************************************)
(* StepPanel: goNext and goPrev applied as the panel's transition          *)
(* functions, on whatever question or feedback screen is shown             *)
(***************************************************************************)
CallGoNext ==
  /\ PanelShown
  /\ Apply(goNext)
  /\ UNCHANGED jumps

\* a goPrev that leaves the step counts against the budget of backward moves
CallGoPrev ==
  /\ PanelShown
  /\ IF goPrev = OnPrev /\ currentStep > 0
       THEN jumps < MaxJumps /\ jumps' = jumps + 1
       ELSE UNCHANGED jumps
  /\ Apply(goPrev)

(***************************************************************************)
(* StepPanel: answer inputs                                                *)
(***************************************************************************)
\* range of the tone sliders (min / max of the range inputs)
sliderMin == 1
sliderMax == 10
SliderRange == sliderMin..sliderMax

\* slider positions the sessions drag to
SliderInputs == { 9 }

\* positions the closeness slider is dragged to in the sessions of answers
\* and navigation: both ends of its range and one position inside
RatingInputs == { sliderMin, 9, sliderMax }


\* the frame of an answer-editing handler: everything but the answers, then
\* the progress effect
Edit ==
  /\ edits < MaxEdits
  /\ edits' = edits + 1
  /\ notice' = NoNotice
  /\ UNCHANGED << currentStep, cursorVars >>
  /\ ProgressEffect
  /\ UNCHANGED << showStepper, previewVars, jumps, pure, profileVars >>

\* language ButtonChoice: setOnboardingLang / setTwinLang
SetOnboardingLang(l) ==
  /\ PanelShown /\ stepId = "language" /\ subIndex = 0
  /\ l # onboardingLang
  /\ onboardingLang' = l
  /\ UNCHANGED << twinLang, freeText, selection, selections, otherOpen, otherText,
                  gQ3Map, liveVars >>
  /\ Edit

SetTwinLang(l) ==
  /\ PanelShown /\ stepId = "language" /\ subIndex = 1
  /\ l # twinLang
  /\ twinLang' = l
  /\ UNCHANGED << onboardingLang, freeText, selection, selections, otherOpen,
                  otherText, gQ3Map, liveVars >>
  /\ Edit

\* text input / textarea onChange of q1Text and exQ3Text
TypeText(q, v) ==
  /\ Rendered(q)
  /\ v # freeText[q]
  /\ freeText' = [freeText EXCEPT ![q] = v]
  /\ UNCHANGED << onboardingLang, twinLang, selection, selections, otherOpen,
                  otherText, gQ3Map, liveVars >>
  /\ Edit

\* ButtonChoice of a single-select question: setXSelection(o)
SelectOption(q) ==
  /\ Rendered(q)
  /\ selection[q] # OptionOf(q)
  /\ selection' = [selection EXCEPT ![q] = OptionOf(q)]
  /\ UNCHANGED << onboardingLang, twinLang, freeText, selections, otherOpen,
                  otherText, gQ3Map, liveVars >>
  /\ Edit

\* a tone updater without the cap
toggleTone_NoCap(s, t) == IF Includes(s, t) THEN Without(s, t) ELSE Append(s, t)

\* the updater of setQ2Selections (868-872): remove, cap at 2, or append
toggleTone(s, t) ==
  IF Includes(s, t) THEN Without(s, t)
  ELSE IF Len(s) >= 2 THEN s
  ELSE Append(s, t)

ToggleTone(t) ==
  /\ Rendered("q2")
  /\ toggleTone(selections["q2"], t) # selections["q2"]
  /\ selections' = [selections EXCEPT !["q2"] = toggleTone(@, t)]
  /\ UNCHANGED << onboardingLang, twinLang, freeText, selection, otherOpen,
                  otherText, gQ3Map, liveVars >>
  /\ Edit

\* the updater of setQ5Selections / setGQ1Selections: remove or append
toggleMulti(s, o) == IF Includes(s, o) THEN Without(s, o) ELSE Append(s, o)

ToggleMulti(q) ==
  /\ Rendered(q)
  /\ selections' = [selections EXCEPT ![q] = toggleMulti(@, OptionOf(q))]
  /\ UNCHANGED << onboardingLang, twinLang, freeText, selection, otherOpen,
                  otherText, gQ3Map, liveVars >>
  /\ Edit

\* the 'Other' checkbox: setXOtherOpen(e.target.checked)
ToggleOther(q) ==
  /\ Rendered(q)
  /\ otherOpen' = [otherOpen EXCEPT ![q] = ~@]
  /\ UNCHANGED << onboardingLang, twinLang, freeText, selection, selections,
                  otherText, gQ3Map, liveVars >>
  /\ Edit

\* the 'Other' text input, rendered while the toggle is on
TypeOther(q, v) ==
  /\ Rendered(q)
  /\ otherOpen[q]
  /\ v # otherText[q]
  /\ otherText' = [otherText EXCEPT ![q] = v]
  /\ UNCHANGED << onboardingLang, twinLang, freeText, selection, selections,
                  otherOpen, gQ3Map, liveVars >>
  /\ Edit

\* a radio button of the guardrails matrix: setGQ3Map(m => ({ ...m, [r]: level }))
SetRow(r, level) ==
  /\ PanelShown /\ stepId = "guardrails" /\ subIndex = 2
  /\ gQ3Map[r] # level
  /\ gQ3Map' = [gQ3Map EXCEPT ![r] = level]
  /\ UNCHANGED << onboardingLang, twinLang, freeText, selection, selections,
                  otherOpen, otherText, liveVars >>
  /\ Edit

(***************************************************************************)
(* StepPanel: preview step                                                 *)
(***************************************************************************)
PreviewCardShown == PanelShown /\ stepId = "preview" /\ subIndex = 0

\* closeness slider onChange
SetPreviewRating(v) ==
  /\ PreviewCardShown
  /\ v # previewRating
  /\ previewRating' = v
  /\ UNCHANGED << answerVars, showAdvancedPreviewControls, directness, warmth, challenge >>
  /\ Edit

\* closeness slider onMouseUp / onTouchEnd
ReleasePreviewRating ==
  /\ PreviewCardShown
  /\ ~showAdvancedPreviewControls
  /\ showAdvancedPreviewControls' = TRUE
  /\ notice' = NoNotice
  /\ UNCHANGED << currentStep, cursorVars, answerVars, previewRating, directness,
                  warmth, challenge, edits >>
  /\ ProgressEffect
  /\ UNCHANGED << showStepper, previewVars, jumps, pure, profileVars >>

\* a directness slider whose onChange also commits the value
SetDirectness_Committing(v) ==
  /\ SlidersRendered
  /\ v # directness
  /\ directness' = v
  /\ commDirectness' = v
  /\ edits < MaxEdits
  /\ edits' = edits + 1
  /\ notice' = NoNotice
  /\ UNCHANGED << currentStep, cursorVars, answerVars, previewRating,
                  showAdvancedPreviewControls, warmth, challenge >>
  /\ ProgressEffect
  /\ UNCHANGED << showStepper, commWarmth, commChallenge, feedbackVars, crossfadeVars,
                  timerVars, jumps, pure, profileVars >>

\* onChange of the three tone sliders
SetDirectness(v) ==
  /\ SlidersRendered
  /\ v # directness
  /\ directness' = v
  /\ UNCHANGED << answerVars, previewRating, showAdvancedPreviewControls, warmth, challenge >>
  /\ Edit

SetWarmth(v) ==
  /\ SlidersRendered
  /\ v # warmth
  /\ warmth' = v
  /\ UNCHANGED << answerVars, previewRating, showAdvancedPreviewControls, directness, challenge >>
  /\ Edit

SetChallenge(v) ==
  /\ SlidersRendered
  /\ v # challenge
  /\ challenge' = v
  /\ UNCHANGED << answerVars, previewRating, showAdvancedPreviewControls, directness, warmth >>
  /\ Edit

\* the state updates of commitPreviewFromSliders and its two setTimeout calls
CommitUpdates ==
  LET newBg == computePreviewGradient(directness, warmth, challenge) IN
  /\ commDirectness' = directness
  /\ commWarmth' = warmth
  /\ commChallenge' = challenge
  /\ previewMessage' = PreviewMessageFor(directness, warmth, challenge)
  /\ demoVisible' = FALSE
  /\ nextBgGradient' = newBg
  /\ bgFading' = TRUE
  /\ textTimers' = Append(textTimers, gen(directness, warmth, challenge))
  /\ bgTimers' = Append(bgTimers, newBg)
  /\ UNCHANGED << demoContent, bgGradient >>

\* onMouseUp / onTouchEnd of a tone slider, with fewer than limit crossfades
\* still in flight
commitPreview(limit) ==
  /\ SlidersRendered
  /\ Len(bgTimers) < limit
  /\ CommitUpdates
  /\ notice' = NoNotice
  /\ UNCHANGED << homeVars, cursorVars, answerVars, liveVars, feedbackVars, edits,
                  jumps, pure, profileVars >>

\* a slider release in the wizard sessions
commitPreviewFromSliders == commitPreview(MaxPending)

\* 220 ms callbacks that run in the reverse order of their commits
FireTextTimer_Newest ==
  /\ textTimers # << >>
  /\ demoContent' = textTimers[Len(textTimers)]
  /\ demoVisible' = TRUE
  /\ textTimers' = SubSeq(textTimers, 1, Len(textTimers) - 1)
  /\ UNCHANGED << homeVars, cursorVars, answerVars, liveVars, commVars, feedbackVars,
                  previewMessage, bgGradient, nextBgGradient, bgFading, bgTimers,
                  notice, edits, jumps, pure, profileVars >>

\* the 220 ms callback of the oldest commit whose text timer is pending
FireTextTimer ==
  /\ textTimers # << >>
  /\ demoContent' = Head(textTimers)
  /\ demoVisible' = TRUE
  /\ textTimers' = Tail(textTimers)
  /\ UNCHANGED << homeVars, cursorVars, answerVars, liveVars, commVars, feedbackVars,
                  previewMessage, bgGradient, nextBgGradient, bgFading, bgTimers,
                  notice, edits, jumps, pure, profileVars >>

\* the 360 ms callback running at any time after its commit
FireBgTimer_Unordered ==
  /\ bgTimers # << >>
  /\ bgGradient' = Head(bgTimers)
  /\ nextBgGradient' = NoGradient
  /\ bgFading' = FALSE
  /\ bgTimers' = Tail(bgTimers)
  /\ UNCHANGED << homeVars, cursorVars, answerVars, liveVars, commVars, feedbackVars,
                  previewMessage, demoContent, demoVisible, textTimers,
                  notice, edits, jumps, pure, profileVars >>

\* the 360 ms callback of the oldest commit; its own 220 ms callback has run
FireBgTimer ==
  /\ bgTimers # << >>
  /\ Len(bgTimers) > Len(textTimers)
  /\ bgGradient' = Head(bgTimers)
  /\ nextBgGradient' = NoGradient
  /\ bgFading' = FALSE
  /\ bgTimers' = Tail(bgTimers)
  /\ UNCHANGED << homeVars, cursorVars, answerVars, liveVars, commVars, feedbackVars,
                  previewMessage, demoContent, demoVisible, textTimers,
                  notice, edits, jumps, pure, profileVars >>

\* 'What do you think?' (sub-index 1)
FeedbackFrame ==
  /\ PanelShown /\ stepId = "preview" /\ subIndex = 1
  /\ UNCHANGED << homeVars, showIntro, answerVars, commVars, crossfadeVars, timerVars,
                  edits, jumps, pure, profileVars >>

AcceptPreview ==
  /\ FeedbackFrame
  /\ selectedFeedbackChoice' = "accept"
  /\ subIndex' = 2
  /\ notice' = NoNotice
  /\ UNCHANGED << liveVars, feedbackThumb >>

\* a 'tweak it' button that moves on to the terminal screen like 'accept'
TweakPreview_Forward ==
  /\ FeedbackFrame
  /\ selectedFeedbackChoice' = "tweak"
  /\ subIndex' = 2
  /\ showAdvancedPreviewControls' = TRUE
  /\ notice' = NoNotice
  /\ UNCHANGED << previewRating, directness, warmth, challenge, feedbackThumb >>

TweakPreview ==
  /\ FeedbackFrame
  /\ selectedFeedbackChoice' = "tweak"
  /\ subIndex' = 0
  /\ showAdvancedPreviewControls' = TRUE
  /\ notice' = NoNotice
  /\ UNCHANGED << previewRating, directness, warmth, challenge, feedbackThumb >>

SharpenPreview ==
  /\ FeedbackFrame
  /\ selectedFeedbackChoice' = "sharpen"
  /\ notice' = "Sharpen behaviour: coming soon"
  /\ UNCHANGED << subIndex, liveVars, feedbackThumb >>

SetFeedbackThumb(t) ==
  /\ FeedbackFrame
  /\ feedbackThumb' = IF feedbackThumb = t THEN NULL ELSE t
  /\ notice' = NoNotice
  /\ UNCHANGED << subIndex, liveVars, selectedFeedbackChoice >>

\* 'Next' on the terminal screen (sub-index 2): onNext()
PreviewTerminalNext ==
  /\ PanelShown /\ stepId = "preview" /\ subIndex = 2
  /\ Apply(OnNext)
  /\ UNCHANGED jumps

(***************************************************************************)
(* The wizard                                                              *)
(***************************************************************************)
\* the buttons of the StepPanel cursor (no Stepper)
Walk ==
  \/ handleStart
  \/ StartStep
  \/ PreviousButton
  \/ NextButton
  \/ ProceedButton
  \/ RevisitButton

\* clicks on the Stepper
Stepper == \E i \in 0..(Len(steps) - 1) : Jump(i)

\* the answer inputs, typing texts from T and using the 'Other' controls of O
Answer(T, O) ==
  \/ \E l \in Languages : SetOnboardingLang(l) \/ SetTwinLang(l)
  \/ \E q \in TextQs, v \in T : TypeText(q, v)
  \/ \E q \in SingleQs : SelectOption(q)
  \/ \E t \in toneOptions : ToggleTone(t)
  \/ \E q \in MultiQs \ { "q2" } : ToggleMulti(q)
  \/ \E q \in O : ToggleOther(q)
  \/ \E q \in O, v \in T : TypeOther(q, v)
  \/ \E r \in guardQ3Rows, level \in Levels : SetRow(r, level)

\* the preview sliders, dragged to positions of S
PreviewInputs(S) ==
  \/ \E v \in S : SetPreviewRating(v)
  \/ \E v \in S : SetDirectness(v) \/ SetWarmth(v) \/ SetChallenge(v)

\* slider release, crossfade timers and the buttons of the preview step
PreviewButtons ==
  \/ ReleasePreviewRating
  \/ commitPreviewFromSliders
  \/ FireTextTimer
  \/ FireBgTimer
  \/ AcceptPreview
  \/ TweakPreview
  \/ SharpenPreview
  \/ \E t \in { "up", "down" } : SetFeedbackThumb(t)
  \/ PreviewTerminalNext

\* A session in which the user walks through the steps with the panel's own
\* buttons and answers in every way the inputs allow
Next ==
  \/ Walk
  \/ Answer(TextInputs, OtherQs)
  \/ PreviewInputs(SliderInputs)
  \/ PreviewButtons

Spec == Init /\ [][Next]_vars

\* A session in which the user also jumps with the Stepper; the answers are
\* given before the first jump
NextNav ==
  \/ Walk
  \/ Stepper
  \/ jumps = 0 /\ (Answer(TextInputs, OtherQs) \/ PreviewInputs(SliderInputs))
  \/ PreviewButtons

SpecNav == Init /\ [][NextNav]_vars

\* A session in which goNext and goPrev are also applied directly
NextApi ==
  \/ Walk
  \/ CallGoNext
  \/ CallGoPrev
  \/ jumps = 0 /\ (Answer(TextInputs, OtherQs) \/ PreviewInputs(SliderInputs))
  \/ PreviewButtons

SpecApi == Init /\ [][NextApi]_vars

\* A session of answers and navigation only: the buttons of the cursor,
\* goNext and goPrev applied directly, the Stepper, the Next of the preview
\* terminal screen, the answer inputs and the closeness slider; the other
\* controls of the preview card are left alone
NextForms ==
  \/ Walk
  \/ CallGoNext
  \/ CallGoPrev
  \/ \E i \in 0..(Len(steps) - 1) : JumpWithin(i, MaxHops)
  \/ PreviewTerminalNext
  \/ jumps = 0 /\ Answer(TextInputs, OtherQs)
  \/ jumps = 0 /\ \E v \in RatingInputs : SetPreviewRating(v)

SpecForms == Init /\ [][NextForms]_vars

(***************************************************************************)
(* Preview synthesis on its own: the user has walked to the preview step,  *)
(* opened the advanced controls and dragged the three sliders somewhere;   *)
(* the sliders are then released and the crossfade timers run              *)
(***************************************************************************)
InitSynth ==
  /\ showStepper = TRUE
  /\ currentStep = Len(steps) - 1
  /\ stepProgress = [id \in StepIds |-> ProgressScale]
  /\ subIndex = 0
  /\ showIntro = FALSE
  /\ EmptyAnswers
  /\ previewRating = 5
  /\ showAdvancedPreviewControls = TRUE
  /\ directness \in SliderRange
  /\ warmth \in SliderRange
  /\ challenge \in SliderRange
  /\ commDirectness = 5
  /\ commWarmth = 5
  /\ commChallenge = 5
  /\ previewMessage = NoMessage
  /\ feedbackThumb = NULL
  /\ selectedFeedbackChoice = NULL
  /\ demoContent = DemoInitial
  /\ demoVisible = TRUE
  /\ bgGradient = computePreviewGradient(5, 5, 5)
  /\ nextBgGradient = NoGradient
  /\ bgFading = FALSE
  /\ textTimers = << >>
  /\ bgTimers = << >>
  /\ notice = NoNotice
  /\ edits = 0
  /\ jumps = 0
  /\ pure = NoPure
  /\ form = FormDefaults
  /\ lookup = [LookupSkipped EXCEPT !.mounted = FALSE]

NextSynth ==
  \/ commitPreviewFromSliders
  \/ FireTextTimer
  \/ FireBgTimer

SpecSynth == InitSynth /\ [][NextSynth]_vars

(***************************************************************************)
(* Crossfades on their own: the user has walked to the preview step and    *)
(* opened the advanced controls; sliders are dragged and released, also    *)
(* while the timers of an earlier release are still pending                *)
(***************************************************************************)
InitCrossfade ==
  /\ InitSynth
  /\ directness = commDirectness
  /\ warmth = commWarmth
  /\ challenge = commChallenge

NextCrossfade ==
  \/ \E v \in SliderInputs : SetDirectness(v) \/ SetWarmth(v) \/ SetChallenge(v)
  \/ commitPreview(MaxOverlap)
  \/ FireTextTimer
  \/ FireBgTimer

SpecCrossfade == InitCrossfade /\ [][NextCrossfade]_vars

(***************************************************************************)
(* OnboardingForm: the profile fields, the submit and the geo lookups      *)
(***************************************************************************)
\* validateEmail: /\S+@\S+\.\S+/.test(email)
validateEmail(e) ==
  \E a, d \in 1..Len(e) :
    /\ e[a] = "@" /\ a > 1 /\ e[a - 1] # " "
    /\ e[d] = "." /\ d > a + 1 /\ \A i \in (a + 1)..(d - 1) : e[i] # " "
    /\ d < Len(e) /\ e[d + 1] # " "

\* the countries of the select that the model exercises
countries == { "Germany", "Netherlands" }

\* String.prototype.toLowerCase on the names that occur
toLowerCase(n) ==
  CASE n = "Germany" -> "germany"
    [] n = "Netherlands" -> "netherlands"
    [] n = "Peru" -> "peru"
    [] OTHER -> n

\* what GET /api/geo comes back with: no response in time or a status that
\* is not ok; or a body whose country_name is empty, names a listed country
\* in another case, or names a country that is not listed
GeoResponses ==
  { [ok |-> FALSE, country_name |-> ""],
    [ok |-> TRUE, country_name |-> ""],
    [ok |-> TRUE, country_name |-> "germany"],
    [ok |-> TRUE, country_name |-> "Peru"] }

\* setCountry(match || countryName || '') under 'if (countryName)'
setCountryFromGeo(f, res) ==
  LET name == res.country_name
      found == { c \in countries : toLowerCase(c) = toLowerCase(name) } IN
  IF name = "" THEN f
  ELSE [f EXCEPT !.country = IF found # {} THEN CHOOSE c \in found : TRUE ELSE name]

\* an OnboardingForm handler or callback leaves Home and the StepPanel alone
FormFrame ==
  UNCHANGED << homeVars, cursorVars, answerVars, liveVars, commVars, feedbackVars,
               crossfadeVars, timerVars, edits, jumps, pure >>

\* onChange of the first-name, last-name and email inputs
SetField(f, v) ==
  /\ ~showStepper
  /\ form[f] # v
  /\ form' = [form EXCEPT ![f] = v]
  /\ notice' = NoNotice
  /\ UNCHANGED lookup
  /\ FormFrame

\* onChange of the country select: setCountry(e.target.value)
SelectCountry(c) ==
  /\ ~showStepper
  /\ form.country # c
  /\ form' = [form EXCEPT !.country = c]
  /\ notice' = NoNotice
  /\ UNCHANGED lookup
  /\ FormFrame

\* the required fields are filled in and the email is well-formed
ProfileComplete ==
  /\ form.firstName # ""
  /\ form.lastName # ""
  /\ form.email # << >>
  /\ validateEmail(form.email)

\* a submit handler that is inert while a lookup is loading
handleSubmit_AfterLookup ==
  /\ ~showStepper
  /\ ~form.loadingGeo
  /\ IF ~ProfileComplete
       THEN /\ notice' = "Please complete the required fields with valid information."
            /\ UNCHANGED form
       ELSE /\ notice' = NoNotice
            /\ form' = [form EXCEPT !.showModal = TRUE]
  /\ UNCHANGED lookup
  /\ FormFrame

\* OnboardingForm.handleSubmit
handleSubmit ==
  /\ ~showStepper
  /\ IF ~ProfileComplete
       THEN /\ notice' = "Please complete the required fields with valid information."
            /\ UNCHANGED form
       ELSE /\ notice' = NoNotice
            /\ form' = [form EXCEPT !.showModal = TRUE]
  /\ UNCHANGED lookup
  /\ FormFrame

\* click on the backdrop of the welcome modal
CloseModal ==
  /\ ~showStepper
  /\ form.showModal
  /\ form' = [form EXCEPT !.showModal = FALSE]
  /\ notice' = NoNotice
  /\ UNCHANGED lookup
  /\ FormFrame

\* "Let's do it" on the welcome modal: onStart()
LetsDoIt ==
  /\ form.showModal
  /\ handleStart

\* number of retries of the automatic lookup
maxRetries == 2

\* fetchGeo resumes after 'await timeoutFetch' with the outcome of the request
FetchGeoResponse(res) ==
  /\ lookup.pc = "fetching"
  /\ IF ~lookup.mounted
       THEN /\ lookup' = [lookup EXCEPT !.pc = "done"]
            /\ UNCHANGED form
     ELSE IF ~res.ok
       THEN /\ lookup' = [lookup EXCEPT !.attempt = @ + 1, !.pc = "backoff",
                                        !.delay = 300 * (lookup.attempt + 1)]
            /\ UNCHANGED form
     ELSE /\ lookup' = [lookup EXCEPT !.pc = "done"]
          /\ form' = [setCountryFromGeo(form, res) EXCEPT !.loadingGeo = FALSE]
  /\ UNCHANGED notice
  /\ FormFrame

\* a retry loop that allows one attempt more
FetchGeoRetry_OneMore ==
  /\ lookup.pc = "backoff"
  /\ IF lookup.attempt <= maxRetries + 1 /\ lookup.mounted
       THEN /\ lookup' = [lookup EXCEPT !.pc = "fetching", !.requests = @ + 1]
            /\ UNCHANGED form
       ELSE /\ lookup' = [lookup EXCEPT !.pc = "done"]
            /\ form' = IF lookup.mounted THEN [form EXCEPT !.loadingGeo = FALSE] ELSE form
  /\ UNCHANGED notice
  /\ FormFrame

\* fetchGeo resumes after the backoff wait: the next attempt, or the end of
\* the loop and the finally block
FetchGeoRetry ==
  /\ lookup.pc = "backoff"
  /\ IF lookup.attempt <= maxRetries /\ lookup.mounted
       THEN /\ lookup' = [lookup EXCEPT !.pc = "fetching", !.requests = @ + 1]
            /\ UNCHANGED form
       ELSE /\ lookup' = [lookup EXCEPT !.pc = "done"]
            /\ form' = IF lookup.mounted THEN [form EXCEPT !.loadingGeo = FALSE] ELSE form
  /\ UNCHANGED notice
  /\ FormFrame

\* the 'Detect' button: detectCountry up to its await
detectCountry ==
  /\ ~showStepper
  /\ lookup.detecting < MaxDetects
  /\ lookup' = [lookup EXCEPT !.detecting = @ + 1]
  /\ form' = [form EXCEPT !.loadingGeo = TRUE]
  /\ notice' = NoNotice
  /\ FormFrame

\* detectCountry resumes with the outcome of its request; it does not look
\* at 'mounted', and state updates of an unmounted form are dropped
DetectResponse(res) ==
  /\ lookup.detecting > 0
  /\ lookup' = [lookup EXCEPT !.detecting = @ - 1]
  /\ notice' = IF res.ok THEN notice ELSE "Country detection failed"
  /\ form' = IF ~lookup.mounted THEN form
             ELSE IF ~res.ok THEN [form EXCEPT !.loadingGeo = FALSE]
             ELSE [setCountryFromGeo(form, res) EXCEPT !.loadingGeo = FALSE]
  /\ FormFrame

\* the page is loaded without the automatic lookup, or its mount effect has
\* called fetchGeo: loadingGeo is set and the request of attempt 0 is under
\* way
InitProfile ==
  /\ InitProgram
  /\ pure = NoPure
  /\ \/ form = FormDefaults /\ lookup = LookupSkipped
     \/ /\ form = [FormDefaults EXCEPT !.loadingGeo = TRUE]
        /\ lookup = [LookupSkipped EXCEPT !.pc = "fetching", !.requests = 1]

\* A session that fills in and submits the profile form while the lookups
\* run, starts the wizard from the welcome modal and takes the first steps
\* of the wizard
NextProfile ==
  \/ \E f \in { "firstName", "lastName" }, v \in { "", "Jane" } : SetField(f, v)
  \/ \E v \in { << >>, << "j", "@", "x" >>, << "j", "@", "x", ".", "i" >> } :
        SetField("email", v)
  \/ \E c \in countries \cup { "" } : SelectCountry(c)
  \/ handleSubmit
  \/ CloseModal
  \/ LetsDoIt
  \/ \E res \in GeoResponses : FetchGeoResponse(res)
  \/ FetchGeoRetry
  \/ detectCountry
  \/ \E res \in GeoResponses : DetectResponse(res)
  \/ StartStep
  \/ PreviousButton
  \/ NextButton
  \/ ProceedButton
  \/ \E l \in Languages : SetOnboardingLang(l) \/ SetTwinLang(l)

SpecProfile == InitProfile /\ [][NextProfile]_vars

\* every request of the automatic lookup settles within its 4000 ms timeout
\* and every backoff wait ends
SpecProfileFair ==
  SpecProfile /\ WF_vars((\E res \in GeoResponses : FetchGeoResponse(res)) \/ FetchGeoRetry)

(***************************************************************************)
(* computePreviewGradient as a function of any three non-negative weights  *)
(***************************************************************************)
Weights == 0..MaxWeight

InitGradient ==
  /\ InitProgram
  /\ form = FormDefaults
  /\ lookup = LookupSkipped
  /\ \E d \in Weights, w \in Weights, c \in Weights :
        pure = [fn |-> "input", d |-> d, w |-> w, c |-> c]

\* one call computePreviewGradient(d, w, c): the array adjusted[], the branch
\* that filled it and the stops of the returned string
CallComputePreviewGradient ==
  /\ pure.fn = "input"
  /\ pure' = [fn |-> "computePreviewGradient", d |-> pure.d, w |-> pure.w, c |-> pure.c,
              clamped |-> clampedParts(pure.d, pure.w, pure.c),
              evenSplit |-> evenSplit(pure.d, pure.w, pure.c),
              adjusted |-> adjustedWidths(pure.d, pure.w, pure.c),
              gradient |-> computePreviewGradient(pure.d, pure.w, pure.c)]
  /\ UNCHANGED << homeVars, cursorVars, answerVars, liveVars, commVars, feedbackVars,
                  crossfadeVars, timerVars, notice, edits, jumps, profileVars >>

NextGradient == CallComputePreviewGradient

SpecGradient == InitGradient /\ [][NextGradient]_vars

(***************************************************************************)
(* Properties of the preview synthesis                                     *)
(***************************************************************************)
Committed == previewMessage # NoMessage
\* every timer of every commit has run: the demo sentence on screen is the
\* one of the last commit
Settled == Committed /\ textTimers = << >> /\ bgTimers = << >>

\* the message template a message starts with
TemplateOf(msg) == CHOOSE t \in { MsgDefault, MsgWarm, MsgDirect } : t[1] = msg[1]

\* a message with the confrontational clause put in before its closing
\* quotation mark
WithClause(msg) ==
  SubSeq(msg, 1, Len(msg) - 1) \o << ChallengeClause, "?", msg[Len(msg)] >>

\* C6: for every committed triple (d, w, c) in 1..10 the message/reflection
\* pair is the warmth-led template iff w >= 7 and w > d, otherwise the
\* directness-led template iff d >= 7 and d >= w, otherwise the neutral
\* template; message and reflection come from the same template.
C6_TemplateSelection ==
  Committed =>
    LET d == commDirectness
        w == commWarmth
        warmLed == w >= 7 /\ w > d
        directLed == ~warmLed /\ d >= 7 /\ d >= w
        m == TemplateOf(previewMessage.msg)
        r == previewMessage.reflection
    IN /\ (m = MsgWarm /\ r = ReflectionWarm) <=> warmLed
       /\ (m = MsgDirect /\ r = ReflectionDirect) <=> directLed
       /\ (m = MsgDefault /\ r = ReflectionDefault) <=> (~warmLed /\ ~directLed)
       /\ m = MsgWarm <=> r = ReflectionWarm
       /\ m = MsgDirect <=> r = ReflectionDirect

\* a commit at warmth 7 against directness 7: the tie goes to directness
C6_Witness ==
  /\ Committed
  /\ commWarmth = 7 /\ commDirectness = 7
  /\ TemplateOf(previewMessage.msg) = MsgDirect
  /\ previewMessage.reflection = ReflectionDirect

\* C7: for every commit with challenge >= 8 the message is the selected
\* template with the clause ' - and what will you do about it?' put in before
\* its closing quotation mark, so that it differs from the template; for
\* challenge <= 7 the message is exactly the selected template.
C7_ChallengeSuffix ==
  Committed =>
    LET t == TemplateOf(previewMessage.msg) IN
    IF commChallenge >= 8
      THEN previewMessage.msg = WithClause(t) /\ previewMessage.msg # t
      ELSE previewMessage.msg = t

\* C8: committing directness 9, warmth 2, challenge 9 gives the
\* directness-led template with the challenge clause, and the demo sentence
\* of the directness branch.
C8_DirectChallengeScenario ==
  (Settled /\ commDirectness = 9 /\ commWarmth = 2 /\ commChallenge = 9) =>
    /\ previewMessage.msg = WithClause(MsgDirect)
    /\ previewMessage.reflection = ReflectionDirect
    /\ demoContent = DemoDirect

\* C9 as stated: the demo sentence is the warmth sentence if warmth >= 7,
\* else the directness sentence if directness >= 7, else the challenge
\* sentence if challenge >= 7, else the default sentence; at challenge 7 with
\* warmth and directness below 7 the message carries no clause.
C9_DemoSelectorAsStated ==
  Settled =>
    LET d == commDirectness
        w == commWarmth
        c == commChallenge
    IN /\ demoContent = IF w >= 7 THEN DemoWarm
                        ELSE IF d >= 7 THEN DemoDirect
                        ELSE IF c >= 7 THEN DemoChallenge
                        ELSE DemoDefault
       /\ (c = 7 /\ w < 7 /\ d < 7) =>
            previewMessage.msg = TemplateOf(previewMessage.msg)

\* C9 (amended): the demo sentence is the warmth sentence if warmth >= 7 and
\* warmth > directness, else the directness sentence if directness >= 7 and
\* directness >= warmth, else the challenge sentence if challenge >= 7, else
\* the default sentence; at challenge 7 with warmth and directness below 7 the
\* demo is the challenge sentence and the message carries no clause.
C9_DemoSelector ==
  Settled =>
    LET d == commDirectness
        w == commWarmth
        c == commChallenge
    IN /\ demoContent = IF w >= 7 /\ w > d THEN DemoWarm
                        ELSE IF d >= 7 /\ d >= w THEN DemoDirect
                        ELSE IF c >= 7 THEN DemoChallenge
                        ELSE DemoDefault
       /\ (c = 7 /\ w < 7 /\ d < 7) =>
            /\ demoContent = DemoChallenge
            /\ previewMessage.msg = TemplateOf(previewMessage.msg)

\* challenge committed at 7 under low warmth and directness, timers run
C9_Witness ==
  /\ Settled
  /\ commChallenge = 7 /\ commWarmth = 3 /\ commDirectness = 4
  /\ demoContent = DemoChallenge
  /\ previewMessage.msg = MsgDefault

\* C13: a crossfade timer that fires while the timers of a later commit are
\* still pending has no visible effect: the earlier text timer leaves
\* demoContent and demoVisible alone, and the earlier background timer
\* leaves bgGradient and the later commit's overlay (nextBgGradient,
\* bgFading) alone.
C13_EarlierTimersSuperseded ==
  [][ /\ (FireTextTimer /\ textTimers' # << >>) => UNCHANGED << demoContent, demoVisible >>
      /\ (FireBgTimer /\ bgTimers' # << >>) =>
            UNCHANGED << bgGradient, nextBgGradient, bgFading >> ]_vars

\* C14: leaving the preview step discards the pending overlay
\* (nextBgGradient empty, bgFading false), and while another step is active
\* no crossfade timer changes demoContent, demoVisible, bgGradient,
\* nextBgGradient or bgFading.
C14_StepExitStopsCrossfade ==
  [][ /\ (stepId = "preview" /\ currentStep' # currentStep) =>
            (nextBgGradient' = NoGradient /\ ~bgFading')
      /\ (stepId # "preview" /\ (FireTextTimer \/ FireBgTimer)) =>
            UNCHANGED << demoContent, demoVisible, bgGradient, nextBgGradient, bgFading >>
    ]_vars

\* the gradient of the live slider triple, which a commit stages
LiveGradient == computePreviewGradient(directness, warmth, challenge)

\* the crossfade of a single commit is in flight: one background timer is
\* pending and no background timer of an overlapping commit has ended the fade
OneInFlight == Len(bgTimers) = 1 /\ bgFading

\* C15: a commit with no crossfade in flight hides the demo text and stages
\* the gradient of the new triple as overlay (bgFading on) while bgGradient
\* stays; the text timer of a single commit fires before its background
\* timer; the text timer swaps in the new demo sentence and shows it; the
\* background timer then promotes the staged gradient, clears the overlay
\* and ends the fade.
C15_SingleCommitSequence ==
  [][ /\ (commitPreviewFromSliders /\ bgTimers = << >>) =>
            /\ ~demoVisible'
            /\ nextBgGradient' = LiveGradient
            /\ bgFading'
            /\ UNCHANGED << bgGradient, demoContent >>
            /\ textTimers' # << >> /\ OneInFlight'
      /\ (OneInFlight /\ FireTextTimer) =>
            /\ demoContent' = gen(commDirectness, commWarmth, commChallenge)
            /\ demoVisible'
            /\ UNCHANGED << bgGradient, nextBgGradient, bgFading >>
      /\ (OneInFlight /\ FireBgTimer) =>
            /\ textTimers = << >>
            /\ bgGradient' = computePreviewGradient(commDirectness, commWarmth, commChallenge)
            /\ bgGradient' = nextBgGradient
            /\ nextBgGradient' = NoGradient
            /\ ~bgFading'
            /\ UNCHANGED << demoContent, demoVisible >>
    ]_vars

\* a single commit at a triple other than the initial one has run to its end
C15_Witness ==
  /\ Settled
  /\ << commDirectness, commWarmth, commChallenge >> = << 2, 9, 4 >>
  /\ demoContent = DemoWarm /\ demoVisible
  /\ bgGradient = computePreviewGradient(2, 9, 4)
  /\ bgGradient # computePreviewGradient(5, 5, 5)
  /\ nextBgGradient = NoGradient /\ ~bgFading

\* a live tone slider value changes
LiveChanged == << directness, warmth, challenge >>' # << directness, warmth, challenge >>

\* C16: a step that changes a live slider value without being a commit
\* leaves the committed values and the preview state (previewMessage,
\* demoContent, demoVisible, bgGradient, nextBgGradient, bgFading)
\* unchanged; these change only in a commit or in a crossfade timer, in no
\* other action, step changes included.
C16_OnlyCommitChangesCommitted ==
  [][ /\ LiveChanged => UNCHANGED << commVars, crossfadeVars >>
      /\ currentStep' # currentStep => UNCHANGED << commVars, crossfadeVars >>
      /\ << commVars, crossfadeVars >>' # << commVars, crossfadeVars >> =>
            (commitPreviewFromSliders \/ FireTextTimer \/ FireBgTimer)
    ]_vars

\* a slider dragged away from the committed value after a commit, and the
\* preview step left by a jump afterwards
C16_Witness ==
  /\ Committed
  /\ directness = 5 /\ commDirectness = 9
  /\ previewMessage.msg = MsgDirect
  /\ stepId # "preview"

\* C17: on the preview step at sub-index 1, 'tweak it' sets subIndex to 0
\* and showAdvancedPreviewControls to true and leaves the committed values,
\* the live slider values and the preview message unchanged; it does not
\* move to sub-index 2.
C17_TweakReturnsToSliders ==
  [][ TweakPreview =>
        /\ stepId = "preview" /\ subIndex = 1
        /\ subIndex' = 0
        /\ showAdvancedPreviewControls'
        /\ UNCHANGED << commVars, directness, warmth, challenge, previewMessage >>
        /\ UNCHANGED currentStep
    ]_vars

\* 'tweak it' chosen after a commit at (9, 5, 5): back on the sliders with
\* the committed profile and its message kept
C17_Witness ==
  /\ stepId = "preview" /\ subIndex = 0 /\ ~showIntro
  /\ selectedFeedbackChoice = "tweak"
  /\ showAdvancedPreviewControls
  /\ << commDirectness, commWarmth, commChallenge >> = << 9, 5, 5 >>
  /\ << directness, warmth, challenge >> = << 9, 5, 5 >>
  /\ previewMessage.msg = MsgDirect

(***************************************************************************)
(* Properties of the gradient                                              *)
(***************************************************************************)
\* a fraction <<num, den>> is at least n
AtLeast(f, n) == f[1] >= n * f[2]

\* three fractions add up to n
SumIs(a, n) ==
  a[1][1] * a[2][2] * a[3][2] + a[2][1] * a[1][2] * a[3][2] + a[3][1] * a[1][2] * a[2][2]
    = n * a[1][2] * a[2][2] * a[3][2]

\* C10: for every triple of non-negative weights, zeros and values above the
\* slider range included, each of the three adjusted segment widths is at
\* least 8 and the three widths add up to 100.
C10_GradientWidths ==
  pure.fn = "computePreviewGradient" =>
    /\ \A i \in 1..3 : AtLeast(pure.adjusted[i], 8)
    /\ SumIs(pure.adjusted, 100)

\* the call computePreviewGradient(1, 1, 1) has returned
Called111 ==
  /\ pure.fn = "computePreviewGradient"
  /\ pure.d = 1 /\ pure.w = 1 /\ pure.c = 1

\* three equal widths of 100/3 with the stops rounded to 33 and 67
EqualThirds ==
  /\ \A i \in 1..3 : 3 * pure.adjusted[i][1] = 100 * pure.adjusted[i][2]
  /\ stop1(pure.adjusted) = 33 /\ stop2(pure.adjusted) = 67
  /\ pure.gradient = << 31, 35, 65, 69 >>

\* C11 as stated: computePreviewGradient(1, 1, 1) yields three equal
\* segments of 33.33% (stops 33 and 67) and does so through the even-split
\* fallback, the branch taken when every segment was clamped.
C11_EvenSplitAsStated ==
  Called111 => EqualThirds /\ pure.evenSplit /\ pure.clamped = {1, 2, 3}

\* C11 amended: computePreviewGradient(1, 1, 1) yields three equal segments
\* of 33.33% (stops 33 and 67) through the proportional branch with no
\* segment clamped; the even-split fallback is taken exactly when all three
\* weights are zero.
C11_EqualThirdsProportional ==
  /\ Called111 => EqualThirds /\ ~pure.evenSplit /\ pure.clamped = {}
  /\ pure.fn = "computePreviewGradient" =>
        (pure.evenSplit <=> pure.d + pure.w + pure.c = 0)

C11_Witness == Called111 /\ pure.adjusted = [i \in 1..3 |-> << 100, 3 >>]

(***************************************************************************)
(* Properties of the step / sub-step state machine                         *)
(***************************************************************************)
\* the Answer Record of a step: every answer field its questions write
AnswerRecord(id) ==
  [ lang |-> IF id = "language" THEN << onboardingLang, twinLang >> ELSE << >>,
    text |-> [q \in { x \in TextQs : QStep(x) = id } |-> freeText[q]],
    single |-> [q \in { x \in SingleQs : QStep(x) = id } |-> selection[q]],
    multi |-> [q \in { x \in MultiQs : QStep(x) = id } |-> selections[q]],
    otherOn |-> [q \in { x \in OtherQs : QStep(x) = id } |-> otherOpen[q]],
    other |-> [q \in { x \in OtherQs : QStep(x) = id } |-> otherText[q]],
    rows |-> IF id = "guardrails" THEN gQ3Map ELSE << >>,
    tone |-> IF id = "preview"
               THEN << previewRating, directness, warmth, challenge >> ELSE << >> ]

\* the Answer Record of a step nobody has answered
EmptyRecord(id) ==
  [ lang |-> IF id = "language" THEN << NULL, NULL >> ELSE << >>,
    text |-> [q \in { x \in TextQs : QStep(x) = id } |-> << >>],
    single |-> [q \in { x \in SingleQs : QStep(x) = id } |-> NULL],
    multi |-> [q \in { x \in MultiQs : QStep(x) = id } |-> << >>],
    otherOn |-> [q \in { x \in OtherQs : QStep(x) = id } |-> FALSE],
    other |-> [q \in { x \in OtherQs : QStep(x) = id } |-> << >>],
    rows |-> IF id = "guardrails" THEN [r \in guardQ3Rows |-> NULL] ELSE << >>,
    tone |-> IF id = "preview" THEN << 5, 5, 5, 5 >> ELSE << >> ]

AllRecords == [id \in StepIds |-> AnswerRecord(id)]

\* the sub-index of the feedback / terminal screen of a step
LastSub(id) ==
  CASE id = "language" -> 2
    [] id = "identity" -> 5
    [] id \in { "method", "example", "guardrails" } -> 3
    [] id = "preview" -> 2

\* an option of question q is selected or its other-text is non-empty
Chosen(q) ==
  \/ q \in SingleQs /\ selection[q] # NULL
  \/ q \in MultiQs /\ selections[q] # << >>
  \/ Trim(otherText[q]) # << >>

\* the same with the other-text counted only while its input is open
ChosenOpen(q) ==
  \/ q \in SingleQs /\ selection[q] # NULL
  \/ q \in MultiQs /\ selections[q] # << >>
  \/ otherOpen[q] /\ Trim(otherText[q]) # << >>

\* the validation table: the condition required to leave question sub of
\* step id, Given(q) reading 'selected or other-text non-empty'
Required(id, sub, Given(_)) ==
  CASE id = "language" /\ sub = 0 -> onboardingLang # NULL
    [] id = "language" /\ sub = 1 -> twinLang # NULL
    [] id = "identity" /\ sub = 0 -> Trim(freeText["q1"]) # << >>
    [] id = "identity" /\ sub = 1 -> Given("q2")
    [] id = "identity" /\ sub = 2 -> Given("q3")
    [] id = "identity" /\ sub = 3 -> Given("q4")
    [] id = "method" /\ sub = 0 -> Given("mQ1")
    [] id = "method" /\ sub = 1 -> Given("mQ2")
    [] id = "method" /\ sub = 2 -> Given("mQ3")
    [] id = "example" /\ sub = 0 -> Given("exQ1")
    [] id = "example" /\ sub = 1 -> Given("exQ2")
    [] id = "example" /\ sub = 2 -> Trim(freeText["exQ3"]) # << >>
    [] id = "guardrails" /\ sub = 0 -> Given("gQ1")
    [] id = "guardrails" /\ sub = 1 -> Given("gQ2")
    [] id = "guardrails" /\ sub = 2 -> \A r \in guardQ3Rows : gQ3Map[r] # NULL
    [] id = "preview" /\ sub = 0 -> previewRating > 0
    [] OTHER -> TRUE

\* one forward-navigation attempt: the Next button of the navigation row, the
\* Proceed button, the terminal Next of the preview, or goNext itself
ForwardAttempt == NextButton \/ ProceedButton \/ PreviewTerminalNext \/ CallGoNext

\* C1: a forward-navigation attempt made while the predicate of the gated
\* question on screen is false changes nothing: subIndex, showIntro, the
\* current step and every Answer Record are as before (only a notice shows).
C1_RejectedAttemptChangesNothing ==
  [][(ForwardAttempt /\ ~Required(stepId, subIndex, Chosen))
       => UNCHANGED << subIndex, showIntro, currentStep, AllRecords >>]_vars

\* C2: when the predicate of the question on screen holds and subIndex is
\* below the last sub-index of the step, a forward-navigation attempt raises
\* subIndex by exactly 1 and changes neither the current step nor any answer;
\* at the last sub-index it moves the current step to min(current + 1, 5).
\* (The predicate is taken to hold when it holds however other-text behind a
\* closed 'Other' toggle is counted.)
C2_AcceptedAttemptAdvances ==
  [][ForwardAttempt =>
       IF subIndex < LastSub(stepId)
         THEN Required(stepId, subIndex, ChosenOpen) =>
                /\ subIndex' = subIndex + 1
                /\ UNCHANGED << currentStep, AllRecords >>
         ELSE currentStep' = Min2(currentStep + 1, 5)]_vars

\* C3: after any change of the current step the intro is showing, subIndex
\* is 0 and the Answer Record of the newly active step is at its empty
\* default: nothing selected, texts empty, every 'other' toggle off, every
\* matrix row unset, the preview sliders at their defaults.
C3_StepChangeResetsActiveStep ==
  [][currentStep' # currentStep =>
       (showIntro /\ subIndex = 0 /\ AnswerRecord(stepId) = EmptyRecord(stepId))']_vars

\* C4: going back into a step leaves the Answer Record of every other step as
\* it was immediately before, answers given on the step just left included.
C4_ReentryKeepsOtherRecords ==
  [][currentStep' < currentStep =>
       \A id \in StepIds \ { steps[currentStep' + 1] } :
         AnswerRecord(id)' = AnswerRecord(id)]_vars

\* C5: on the preview step the answers captured on the way there are still
\* held: the identity tone words and phrase and the method belief and
\* metaphor are non-empty.
C5_PreviewHoldsEarlierAnswers ==
  (showStepper /\ stepId = "preview") =>
    /\ Chosen("q2")
    /\ Chosen("q3")
    /\ Chosen("mQ2")
    /\ Chosen("mQ3")

(***************************************************************************)
(* Properties of the answer inputs                                         *)
(***************************************************************************)
\* the members of a selection list
Members(s) == { s[i] : i \in 1..Len(s) }

NoDuplicates(s) == Cardinality(Members(s)) = Len(s)

\* C18: in every reachable state the tone-word selection has at most 2
\* members and no duplicates, and a toggle of any tone word on it removes the
\* word if it is selected, adds it if it is not selected and fewer than 2
\* are, and leaves the selection as it is if it is not selected and 2 are.
C18_ToneCap ==
  LET s == selections["q2"] IN
  /\ Len(s) <= 2
  /\ NoDuplicates(s)
  /\ \A t \in toneOptions :
        LET r == toggleTone(s, t) IN
        /\ NoDuplicates(r)
        /\ t \in Members(s) => Members(r) = Members(s) \ { t }
        /\ (t \notin Members(s) /\ Len(s) < 2) => Members(r) = Members(s) \cup { t }
        /\ (t \notin Members(s) /\ Len(s) >= 2) => r = s

\* two tone words are selected on identity question 1, a third is on offer
C18_Witness ==
  /\ Rendered("q2")
  /\ Len(selections["q2"]) = 2
  /\ \E t \in toneOptions : t \notin Members(selections["q2"])

(***************************************************************************)
(* Properties of single questions                                          *)
(***************************************************************************)
\* C19: on the identity step at sub-index 4 (typical clients) the Next
\* button and goNext advance to sub-index 5 with no alert, whatever the
\* client selections, the 'other' toggle and the other-text are.
C19_ClientsQuestionUngated ==
  [][ (stepId = "identity" /\ subIndex = 4 /\ (NextButton \/ CallGoNext)) =>
        /\ subIndex' = 5
        /\ notice' = NoNotice
        /\ UNCHANGED << currentStep, showIntro, answerVars >>
    ]_vars

\* the feedback screen of the identity step reached with no client answer
C19_Witness ==
  /\ PanelShown /\ stepId = "identity" /\ subIndex = 5
  /\ selections["q5"] = << >>
  /\ ~otherOpen["q5"]
  /\ otherText["q5"] = << >>

\* the question shown at sub-index 0, 1, 2 of the method step
MethodQ(sub) == << "mQ1", "mQ2", "mQ3" >>[sub + 1]

\* C20: on the method step at question 0, 1 or 2, a goNext while neither an
\* option of the question is selected nor its other-text is non-empty is
\* rejected: the step, the sub-index, the intro flag and every answer stay
\* as they are.
C20_MethodGoNextGated ==
  [][ ( /\ CallGoNext
        /\ stepId = "method" /\ subIndex \in 0..2
        /\ ~Chosen(MethodQ(subIndex)) ) =>
        UNCHANGED << currentStep, cursorVars, answerVars, liveVars >>
    ]_vars

\* the questions of the validation table that have an 'other' option
GatedOtherQs == OtherQs \ { "q5" }

\* C21: on each question with an 'other' option (identity 1-3, method 0-2,
\* example 0-1, guardrails 0-1) the Next button advances exactly when an
\* option is selected or the trimmed other-text is non-empty, whatever the
\* 'other' toggle is.
C21_OtherTextGate ==
  [][ \A q \in GatedOtherQs :
        (Rendered(q) /\ NextButton) =>
          ((subIndex' = subIndex + 1 /\ notice' = NoNotice) <=> Chosen(q))
    ]_vars

\* every row of the permission matrix has a level
AllRowsSet == \A r \in guardQ3Rows : gQ3Map[r] \in Levels

\* C22: on guardrails question 2 the Next button and goNext move to
\* sub-index 3 if every matrix row has a permission level and leave subIndex
\* at 2 otherwise; the guardrails feedback screen (sub-index 3) is never
\* shown while a row is unset.
C22_MatrixGate ==
  [][ /\ (stepId = "guardrails" /\ subIndex = 2 /\ (NextButton \/ CallGoNext)) =>
            /\ UNCHANGED << currentStep, gQ3Map >>
            /\ subIndex' = IF AllRowsSet THEN 3 ELSE 2
      /\ (stepId = "guardrails" /\ subIndex = 3 /\ PanelShown)' => AllRowsSet'
    ]_vars

\* the guardrails feedback screen on show, every row set, not all alike
C22_Witness ==
  /\ PanelShown /\ stepId = "guardrails" /\ subIndex = 3
  /\ AllRowsSet
  /\ \E r1, r2 \in guardQ3Rows : gQ3Map[r1] # gQ3Map[r2]

(***************************************************************************)
(* Properties of the ProgressMap                                           *)
(***************************************************************************)
\* the recorded progress of a step, 0 while it has no entry
Recorded(id) == IF id \in DOMAIN stepProgress THEN stepProgress[id] ELSE 0

\* C23: in every reachable state the ProgressMap has entries for step ids
\* only and each entry lies in [0, 1] (0..ProgressScale on the integer
\* scale of the model).
C23_ProgressInUnitInterval ==
  /\ DOMAIN stepProgress \subseteq StepIds
  /\ \A id \in DOMAIN stepProgress :
        stepProgress[id] >= 0 /\ stepProgress[id] <= ProgressScale

\* entries at 1, strictly inside the interval, and at 0 side by side
C23_Witness ==
  /\ Recorded("language") = ProgressScale
  /\ Recorded("identity") = ProgressScale
  /\ Recorded("method") = ProgressScale
  /\ Recorded("example") > 0 /\ Recorded("example") < ProgressScale

\* every question of step id is answered: a choice, a text, a selected
\* option or an open 'other' input with text, every matrix row, a rating
AllAnswered(id) ==
  CASE id = "language" -> onboardingLang # NULL /\ twinLang # NULL
    [] id = "preview" -> previewRating > 0
    [] OTHER ->
         /\ \A q \in TextQs : QStep(q) = id => Trim(freeText[q]) # << >>
         /\ \A q \in OtherQs : QStep(q) = id => ChosenOpen(q)
         /\ id = "guardrails" => AllRowsSet

\* C24: whenever every question of the active step is answered, the
\* recorded progress of that step is exactly 1, whatever the sub-index is.
C24_AllAnsweredIsComplete ==
  (showStepper /\ AllAnswered(stepId)) => Recorded(stepId) = ProgressScale

\* C25: on the language step the recorded progress is the number of the two
\* language choices made, divided by 2.
C25_LanguageProgressCountsChoices ==
  (showStepper /\ stepId = "language") =>
    Recorded("language") = Frac(B(onboardingLang # NULL) + B(twinLang # NULL), 2)

\* a question counts as answered: its text is non-empty, or an option is
\* selected, or its 'other' toggle is on with non-empty text
Answered(q) ==
  IF q \in TextQs THEN Trim(freeText[q]) # << >> ELSE ChosenOpen(q)

\* the number of answered questions among qs
AnsweredCount(qs) == Cardinality({ q \in qs : Answered(q) })

\* C26: the recorded progress of the active step is its formula on the
\* current answers: identity answered/5, method answered/3, example
\* answered/3, guardrails (q1 + q2 + rowsSet/rows)/3.
C26_ProgressIsFormula ==
  showStepper =>
    /\ stepId = "identity" =>
          Recorded("identity") = Frac(AnsweredCount({ "q1", "q2", "q3", "q4", "q5" }), 5)
    /\ stepId = "method" =>
          Recorded("method") = Frac(AnsweredCount({ "mQ1", "mQ2", "mQ3" }), 3)
    /\ stepId = "example" =>
          Recorded("example") = Frac(AnsweredCount({ "exQ1", "exQ2", "exQ3" }), 3)
    /\ stepId = "guardrails" =>
          Recorded("guardrails") =
            Frac(NumRows * AnsweredCount({ "gQ1", "gQ2" }) + answeredRows, 3 * NumRows)

\* C27: every step of the wizard, step changes by next, previous and jump
\* included, leaves the ProgressMap entry of every step other than the one
\* active after it as it was; an entry changes only while its step is active.
C27_OnlyActiveEntryWritten ==
  [][ \A t \in StepIds : t # stepId' => Recorded(t)' = Recorded(t) ]_vars

\* back on the language step after a jump, the entry of the step left kept
C27_Witness ==
  /\ jumps > 0
  /\ stepId = "language"
  /\ Recorded("identity") > 0 /\ Recorded("identity") < ProgressScale

\* the steps that hold answers
AnswerSteps == StepIds \ { "preview" }

\* C28: in no reachable state are all answers of a step among language,
\* identity, method, example, guardrails empty while the ProgressMap entry
\* of that step is greater than 0.
C28_ClearedStepHasNoProgress ==
  \A t \in AnswerSteps :
    (showStepper /\ AnswerRecord(t) = EmptyRecord(t)) => Recorded(t) = 0

(***************************************************************************)
(* Properties of the Stepper                                               *)
(***************************************************************************)
\* the condition under which item i is clickable: recorded progress at least
\* 1, or a step before the current one
JumpAllowed(i) == Recorded(steps[i + 1]) >= ProgressScale \/ i < currentStep

\* C29: a Stepper jump to step i is enabled iff stepProgress[i] >= 1 or
\* i < currentStep; a jump sets currentStep to i; no jump reaches a step
\* after the current one whose recorded progress is below 1.
C29_JumpEnabledIffCompleted ==
  \A i \in 0..(Len(steps) - 1) :
    (showStepper /\ i # currentStep /\ jumps < MaxHops) =>
      /\ (ENABLED JumpWithin(i, MaxHops)) <=> JumpAllowed(i)
      /\ ~ENABLED (JumpWithin(i, MaxHops) /\ currentStep' # i)
      /\ (i > currentStep /\ Recorded(steps[i + 1]) < ProgressScale) =>
            ~ENABLED JumpWithin(i, MaxHops)

\* on the identity step after a jump forward from the language step
C29_Witness ==
  /\ jumps = 2
  /\ stepId = "identity" /\ showIntro
  /\ Recorded("language") = 0
  /\ Recorded("method") < ProgressScale

(***************************************************************************)
(* Properties of the step order                                            *)
(***************************************************************************)
LastStep == Len(steps) - 1

\* C30: currentStep stays within 0..5 over the order language, identity,
\* method, example, guardrails, preview; the next-step operation on the last
\* step (the Next of the preview terminal screen, goNext at sub-index 2) and
\* the previous-step operation on the first step (goPrev at sub-index 0)
\* change neither currentStep nor subIndex nor any answer.
C30_StepIndexBounded ==
  [][ /\ currentStep \in 0..5 /\ currentStep' \in 0..5
      /\ stepId' = << "language", "identity", "method", "example", "guardrails",
                      "preview" >>[currentStep' + 1]
      /\ (currentStep = LastStep /\ subIndex = 2 /\ (PreviewTerminalNext \/ CallGoNext)) =>
            UNCHANGED << currentStep, cursorVars, answerVars >>
      /\ (currentStep = 0 /\ subIndex = 0 /\ CallGoPrev) =>
            UNCHANGED << currentStep, cursorVars, answerVars >>
    ]_vars

\* the terminal screen of the last step on show
C30_Witness ==
  /\ PanelShown
  /\ currentStep = LastStep /\ stepId = "preview"
  /\ subIndex = 2

(***************************************************************************)
(* Properties of the sub-step cursor                                       *)
(***************************************************************************)
\* C31: in every reachable state subIndex lies in 0..lastSub of the active
\* step (language 2, identity 5, method 3, example 3, guardrails 3,
\* preview 2), whatever next, previous, revisit, tweak, accept and jump
\* actions led there.
C31_SubIndexInRange ==
  /\ subIndex >= 0
  /\ subIndex <= << 2, 5, 3, 3, 3, 2 >>[currentStep + 1]

\* back on the language step after a Stepper jump out of the fully answered
\* identity step
C31_Witness ==
  /\ jumps > 0
  /\ stepId = "language"
  /\ subIndex = 0
  /\ Recorded("identity") = ProgressScale

\* C32: goPrev at sub-index 0 performs the previous-step operation: the
\* current step becomes max(0, currentStep - 1), and on step 0 nothing of the
\* cursor or the answers changes; goPrev at a sub-index above 0 lowers
\* subIndex by exactly 1 and changes neither the current step nor any answer.
C32_GoPrev ==
  [][ CallGoPrev =>
        IF subIndex = 0
          THEN /\ currentStep' = Max2(0, currentStep - 1)
               /\ currentStep = 0 => UNCHANGED << cursorVars, answerVars, liveVars >>
          ELSE /\ subIndex' = subIndex - 1
               /\ UNCHANGED << currentStep, showIntro, answerVars, liveVars >>
    ]_vars

\* the intro of the identity step after a move back out of the method step
C32_Witness ==
  /\ jumps > 0
  /\ stepId = "identity" /\ showIntro
  /\ "method" \in DOMAIN stepProgress

(***************************************************************************)
(* goNext against the inline Next handlers                                 *)
(***************************************************************************)
\* the navigation decision o, applied to the current state, ends on step c
\* at sub-index k
LeadsTo(o, c, k) == ENABLED (Apply(o) /\ currentStep' = c /\ subIndex' = k)

\* C35: goNext and the inline Next handler of the active step are the same
\* transition: on every screen with a Next button, whatever the answers are,
\* both lead to the same current step and sub-index (both advance or both
\* stay).
C35_GoNextIsInlineNext ==
  NavRowRendered =>
    \A c \in 0..(Len(steps) - 1), k \in 0..5 :
      LeadsTo(goNext, c, k) <=> LeadsTo(inlineNext, c, k)

(***************************************************************************)
(* Properties that hold in every state of a session                        *)
(***************************************************************************)
\* the validation predicate of a question with an option list, as its Next
\* handler evaluates it: an option is selected or there is other-text, which
\* on every question but identity Q3 counts only while the 'Other' input is
\* open
Valid(q) == IF q = "q3" THEN Chosen(q) ELSE ChosenOpen(q)

\* C36: whenever the active step is at sub-index k, the validation predicate
\* of every gated question j < k of that step holds for the current answers;
\* and at the feedback screen of language, method, example or guardrails the
\* recorded progress of that step is 1.
C36_PassedQuestionsStayValid ==
  showStepper =>
    /\ \A j \in 0..(subIndex - 1) : Required(stepId, j, Valid)
    /\ (stepId \in { "language", "method", "example", "guardrails" }
          /\ subIndex = LastSub(stepId)) => Recorded(stepId) = ProgressScale

\* the feedback screen of the example step, its first question answered
\* with other-text only
C36_Witness ==
  /\ PanelShown /\ stepId = "example" /\ subIndex = 3
  /\ selection["exQ1"] = NULL
  /\ Recorded("example") = ProgressScale

\* C37: in every reachable state an intro on show implies subIndex = 0:
\* 'Revisit questions' on the feedback screen of any step returns the cursor
\* to the intro at sub-index 0, so that 'Start Step' then shows question 0.
C37_IntroAtQuestionZero == (showStepper /\ showIntro) => subIndex = 0

\* C39: the closeness rating is in 1..10 in every reachable state, so the
\* gate of preview question 0 ('closeness rating > 0') never rejects, and
\* the ProgressMap entry of preview is 1 from the moment the step is entered,
\* before the user rates or adjusts anything.
C39_RatingAlwaysPositive ==
  /\ previewRating \in 1..10
  /\ (showStepper /\ stepId = "preview") =>
        /\ Recorded("preview") = ProgressScale
        /\ subIndex = 0 => (goNext = SetSub(1) /\ previewNext = SetSub(1))

\* the intro of the preview step, just entered
C39_Witness ==
  /\ showStepper /\ stepId = "preview"
  /\ showIntro /\ subIndex = 0
  /\ previewRating = 5 /\ ~showAdvancedPreviewControls

\* C38: after any sequence of commits on the preview step, overlapping ones
\* included, once all timers have fired (timers of equal delay in the order
\* they were started) the preview shows the last commit: bgGradient is the
\* gradient of the committed triple, the overlay is empty, the fade is over,
\* the demo text is visible and is the demo sentence of the committed
\* triple, and previewMessage is the template of the committed triple.
C38_SettledShowsLastCommit ==
  Settled =>
    /\ bgGradient = computePreviewGradient(commDirectness, commWarmth, commChallenge)
    /\ nextBgGradient = NoGradient
    /\ ~bgFading
    /\ demoVisible
    /\ demoContent = gen(commDirectness, commWarmth, commChallenge)
    /\ previewMessage = PreviewMessageFor(commDirectness, commWarmth, commChallenge)

\* all timers have fired after commits of which the last one had two of the
\* sliders moved
C38_Witness ==
  /\ Settled
  /\ commDirectness = 9 /\ commWarmth = 5 /\ commChallenge = 9
  /\ edits > 1

(***************************************************************************)
(* Properties of the geo lookups                                           *)
(***************************************************************************)
\* a lookup request comes back without a usable response
FailedLookupStep ==
  \/ \E res \in GeoResponses : ~res.ok /\ (FetchGeoResponse(res) \/ DetectResponse(res))
  \/ FetchGeoRetry

\* any continuation of a lookup
LookupStep ==
  \/ \E res \in GeoResponses : FetchGeoResponse(res) \/ DetectResponse(res)
  \/ FetchGeoRetry

C34_LookupBoundedAndTerminates ==
  /\ [][ /\ lookup'.requests <= 3
         /\ lookup'.pc = "fetching" => lookup'.attempt \in 0..2
         /\ (lookup.pc = "fetching" /\ lookup'.pc = "backoff") =>
               /\ lookup'.attempt = lookup.requests
               /\ lookup'.delay = 300 * lookup.requests
         /\ lookup'.requests # lookup.requests =>
               /\ lookup.pc = "backoff" /\ lookup.mounted
               /\ lookup'.requests = lookup.requests + 1
         /\ (\E res \in GeoResponses : res.ok /\ FetchGeoResponse(res)) => lookup'.pc = "done"
         /\ lookup.pc = "done" => lookup'.pc = "done"
         /\ (lookup.pc # "done" /\ lookup'.pc = "done" /\ lookup.mounted) => ~form'.loadingGeo
       ]_vars
  /\ <>(lookup.pc \in { "skipped", "done" })

\* the automatic lookup has ended after three failed requests, the form
\* still mounted
C34_Witness ==
  /\ lookup.pc = "done" /\ lookup.requests = 3 /\ lookup.attempt = 3
  /\ lookup.delay = 900
  /\ lookup.mounted /\ ~form.loadingGeo

\* C40: once a country is chosen, no lookup result arriving later overwrites
\* it: a lookup (the automatic one or a manual 'Detect') writes the country
\* field only while it is empty.
C40_LookupKeepsChosenCountry ==
  [][ (LookupStep /\ form'.country # form.country) => form.country = "" ]_vars

====
